---- MODULE Spec2Model ----
(***************************************************************************)
(* Image generation server: the two tool operations image_generation and   *)
(* save_generated_images, their collaborators (provider, network, file     *)
(* system, clock) and the registration of image_generation.                *)
(*                                                                         *)
(* Text is a tuple of one-character strings, so that slicing, sanitizing,  *)
(* number formatting and path joining are computed character by character. *)
(***************************************************************************)
EXTENDS Integers, Sequences, FiniteSets, TLC

VARIABLES
    calls,          \* the save invocations the transport dispatches
    call,           \* per save invocation: the locals of saveImages/saveGeneratedImages
    disk,           \* file system: path -> content of the file at that path
    dirs,           \* file system: directories created by mkdir
    clock,          \* the value Date.now() returns
    downloads,      \* network: the fetches started, in order
    apiKey,         \* process.env.OPENAI_API_KEY
    gen,            \* the image_generation invocation
    providerCalls   \* provider: the requests openai.images.generate received

vars == <<calls, call, disk, dirs, clock, downloads, apiKey, gen, providerCalls>>

----------------------------------------------------------------------------
(* Bounds of the model *)

MaxUrls == 3        \* longest urls array of a save request
MaxTicks == 2       \* how far the clock advances during a run
MaxImages == 2      \* most images the provider returns in one response

(* Optional values: a field that is undefined, or holds v *)
Undefined == [def |-> FALSE]
Some(v) == [def |-> TRUE, v |-> v]

----------------------------------------------------------------------------
(* Text *)

LowerSeq == <<"a","b","c","d","e","f","g","h","i","j","k","l","m",
              "n","o","p","q","r","s","t","u","v","w","x","y","z">>
UpperSeq == <<"A","B","C","D","E","F","G","H","I","J","K","L","M",
              "N","O","P","Q","R","S","T","U","V","W","X","Y","Z">>
DigitSeq == <<"0","1","2","3","4","5","6","7","8","9">>

Range(s) == {s[k] : k \in DOMAIN s}

\* the character class [a-z0-9] under the i flag
IsAlnum(ch) == ch \in Range(LowerSeq) \cup Range(UpperSeq) \cup Range(DigitSeq)

\* String.prototype.toLowerCase, one character
ToLower(ch) ==
    IF ch \in Range(UpperSeq)
    THEN LowerSeq[CHOOSE k \in DOMAIN UpperSeq : UpperSeq[k] = ch]
    ELSE ch

\* the length of the prompt prefix a filename keeps
PromptPrefixLen == 30

\* prompt.slice(0, 30)
Slice(s, n) == IF Len(s) <= n THEN s ELSE SubSeq(s, 1, n)

\* prompt.slice(0, 30).replace(/[^a-z0-9]/gi, '-').toLowerCase()
SafePrompt(prompt) ==
    LET cut == Slice(prompt, PromptPrefixLen)
    IN  [k \in DOMAIN cut |-> ToLower(IF IsAlnum(cut[k]) THEN cut[k] ELSE "-")]

\* the decimal digits of a number inside a template literal
RECURSIVE Digits(_)
Digits(n) ==
    IF n < 10 THEN <<DigitSeq[n + 1]>>
    ELSE Digits(n \div 10) \o <<DigitSeq[(n % 10) + 1]>>

\* FileName with the index left out
FileNameNoIndex(prompt, timestamp, i) ==
    SafePrompt(prompt) \o <<"-">> \o Digits(timestamp) \o <<".","p","n","g">>

\* FileName built from the prompt as given
FileNameRawPrompt(prompt, timestamp, i) ==
    prompt \o <<"-">> \o Digits(timestamp) \o <<"-">> \o Digits(i)
        \o <<".","p","n","g">>

\* `${safePrompt}-${timestamp}-${i}.png`
FileName(prompt, timestamp, i) ==
    SafePrompt(prompt) \o <<"-">> \o Digits(timestamp) \o <<"-">> \o Digits(i)
        \o <<".","p","n","g">>

\* path.join(a, b) for a normalized directory a and a file name b
PathJoin(a, b) == a \o <<"/">> \o b

\* `${filePath}.json`
SidecarPath(filePath) == filePath \o <<".","j","s","o","n">>

Cwd == <<"/","w">>
ImagesDir == <<"i","m","a","g","e","s">>

\* a string is falsy when it is undefined or empty
Falsy(opt) == ~opt.def \/ opt.v = <<>>

\* outputDir || path.join(process.cwd(), 'images')
TargetDir(outputDir) ==
    IF Falsy(outputDir) THEN PathJoin(Cwd, ImagesDir) ELSE outputDir.v

----------------------------------------------------------------------------
(* Values thrown by the collaborators: an Error instance or any other value *)

Thrown(what) == {[isError |-> TRUE,  message |-> <<what>>],
                 [isError |-> FALSE, message |-> <<what>>]}

NoFault == [step |-> "none"]
NoResult == [kind |-> "none"]
NoResponse == [status |-> 0]

\* what the server answers for a URL: the image (200), or for a URL it does not
\* have an error page with a non-success status; fetch resolves with the
\* response in both cases
Response(url) ==
    IF url = "gone"
    THEN [status |-> 404, body |-> <<"html", url>>]
    ELSE [status |-> 200, body |-> <<"png", url>>]

----------------------------------------------------------------------------
(* Requests *)

Urls == {"u1", "gone"}
UrlSeqs == UNION {[1..n -> Urls] : n \in 0..MaxUrls}

LongPrefix == [k \in 1..PromptPrefixLen |-> "a"]

Prompts == {<<"A"," ","F","o","x","!">>,
            <<"9">>,
            LongPrefix \o <<"X">>}

SaveRequests ==
    [urls : UrlSeqs,
     prompt : Prompts,
     revisedPrompts : {Undefined, Some(<<"r1">>)},
     outputDir : {Undefined, Some(<<>>), Some(<<"/","o">>)}]

\* the requests two invocations that run at the same time are given
ConcurrentSaveRequests ==
    [urls : {u \in UrlSeqs : Len(u) = 1},
     prompt : {<<"A"," ","F","o","x","!">>, <<"a","-","f","O","X","?">>, <<"9">>},
     revisedPrompts : {Undefined},
     outputDir : {Some(<<"/","o">>)}]

Idle ==
    [pc |-> "idle", urls |-> <<>>, prompt |-> <<>>, revisedPrompts |-> Undefined,
     outputDir |-> Undefined, targetDir |-> <<>>, i |-> 0,
     response |-> NoResponse, buffer |-> <<>>, timestamp |-> 0,
     filename |-> <<>>, filePath |-> <<>>, savedPaths |-> <<>>,
     fault |-> NoFault, result |-> NoResult]

----------------------------------------------------------------------------
(* saveImages and saveGeneratedImages *)

\* params.revisedPrompts || params.urls.map(() => undefined), then [i]
RevisedPromptAt(revisedPrompts, i) ==
    IF revisedPrompts.def /\ i + 1 <= Len(revisedPrompts.v)
    THEN Some(revisedPrompts.v[i + 1])
    ELSE Undefined

\* a catch block that turns every thrown value into an error envelope
CatchEverything(v) ==
    [kind |-> "envelope", isError |-> TRUE,
     text |-> <<"Failed to save images">> \o v.message]

\* the catch block of saveImages
SaveImagesCatch(v) ==
    IF v.isError
    THEN [kind |-> "envelope", isError |-> TRUE,
          text |-> <<"Failed to save images">> \o v.message]
    ELSE [kind |-> "thrown", value |-> v]

\* the successful return of saveImages
SaveImagesReturn(savedPaths, outputDir) ==
    [kind |-> "envelope", isError |-> FALSE,
     saved_paths |-> savedPaths,
     count |-> Len(savedPaths),
     dir |-> IF Falsy(outputDir) THEN ImagesDir ELSE outputDir.v]

\* a value thrown at `step` of saveGeneratedImages reaches the catch of saveImages
Propagate(rec, step, v) ==
    [rec EXCEPT !.pc = "done",
                !.fault = [step |-> step, i |-> rec.i, value |-> v],
                !.result = SaveImagesCatch(v)]

\* the test of the for loop, and the return after the last item
LoopOrReturn(rec) ==
    IF rec.i < Len(rec.urls)
    THEN [rec EXCEPT !.pc = "fetch"]
    ELSE [rec EXCEPT !.pc = "done",
                     !.result = SaveImagesReturn(rec.savedPaths, rec.outputDir)]

\* a mkdir failure rethrown as it was caught
MkdirFailureUnwrapped(e) == e

\* the catch block around fs.mkdir
MkdirFailure(e) ==
    [isError |-> TRUE,
     message |-> <<"Failed to create directory">> \o e.message]

\* a rejected download skipped, the loop going on with the next item
DownloadRejectedSkip(rec, v) ==
    LoopOrReturn([rec EXCEPT !.i = rec.i + 1])

\* await fetch(url) / await response.arrayBuffer() rejecting inside the loop
DownloadRejected(rec, v) == Propagate(rec, "download", v)

\* sidecar metadata with the timestamp in seconds
MetadataSeconds(prompt, revisedPrompt, url, timestamp, filename) ==
    [kind |-> "json", original_prompt |-> prompt, revised_prompt |-> revisedPrompt,
     url |-> url, timestamp |-> timestamp \div 1000, filename |-> filename]

\* the metadata object written to the sidecar
Metadata(prompt, revisedPrompt, url, timestamp, filename) ==
    [kind |-> "json", original_prompt |-> prompt, revised_prompt |-> revisedPrompt,
     url |-> url, timestamp |-> timestamp, filename |-> filename]

\* savedPaths.unshift(filePath)
PushSavedFront(savedPaths, filePath) == <<filePath>> \o savedPaths

\* savedPaths.push(filePath)
PushSaved(savedPaths, filePath) == Append(savedPaths, filePath)

\* the network's record of one download: who asked for what, the status answered
\* (0 when there was no answer) and the value the download rejected with
Download(c, i, url, status, thrown) ==
    [c |-> c, i |-> i, url |-> url, status |-> status, thrown |-> thrown]

\* fs.writeFile(path, content)
WriteFile(d, path, content) ==
    [p \in DOMAIN d \cup {path} |-> IF p = path THEN content ELSE d[p]]

\* the transport invokes saveImages(args)
SaveImages(c) ==
    /\ call[c].pc = "idle"
    /\ gen.pc = "idle"
    /\ \E req \in IF Cardinality(calls) = 1 THEN SaveRequests
                  ELSE ConcurrentSaveRequests :
          call' = [call EXCEPT ![c] =
                      [@ EXCEPT !.pc = "mkdir",
                                !.urls = req.urls,
                                !.prompt = req.prompt,
                                !.revisedPrompts = req.revisedPrompts,
                                !.outputDir = req.outputDir,
                                !.targetDir = TargetDir(req.outputDir)]]
    /\ UNCHANGED <<calls, disk, dirs, clock, downloads, apiKey, gen, providerCalls>>

\* await fs.mkdir(targetDir, { recursive: true })
Mkdir(c) ==
    /\ call[c].pc = "mkdir"
    /\ \/ /\ dirs' = dirs \cup {call[c].targetDir}
          /\ call' = [call EXCEPT ![c] = LoopOrReturn(@)]
       \/ /\ \E e \in Thrown("EACCES") :
                call' = [call EXCEPT ![c] = Propagate(@, "mkdir", MkdirFailure(e))]
          /\ UNCHANGED dirs
    /\ UNCHANGED <<calls, disk, clock, downloads, apiKey, gen, providerCalls>>

\* const response = await fetch(url)
Fetch(c) ==
    LET rec == call[c]
        url == rec.urls[rec.i + 1]
    IN  /\ rec.pc = "fetch"
        /\ \/ /\ call' = [call EXCEPT ![c] =
                             [@ EXCEPT !.pc = "body", !.response = Response(url)]]
              /\ downloads' = Append(downloads,
                                     Download(c, rec.i, url, Response(url).status, Undefined))
           \/ \E v \in Thrown("fetch failed") :
                 /\ call' = [call EXCEPT ![c] = DownloadRejected(@, v)]
                 /\ downloads' = Append(downloads, Download(c, rec.i, url, 0, Some(v)))
        /\ UNCHANGED <<calls, disk, dirs, clock, apiKey, gen, providerCalls>>

\* const buffer = await response.arrayBuffer(), then the filename is derived
ArrayBuffer(c) ==
    LET rec == call[c]
    IN  /\ rec.pc = "body"
        /\ \/ /\ LET filename == FileName(rec.prompt, clock, rec.i)
                 IN  call' = [call EXCEPT ![c] =
                                 [@ EXCEPT !.pc = "writeImage",
                                           !.buffer = rec.response.body,
                                           !.timestamp = clock,
                                           !.filename = filename,
                                           !.filePath = PathJoin(rec.targetDir, filename)]]
              /\ UNCHANGED downloads
           \/ \E v \in Thrown("body failed") :
                 /\ call' = [call EXCEPT ![c] = DownloadRejected(@, v)]
                 /\ downloads' = [k \in DOMAIN downloads |->
                                    IF downloads[k].c = c /\ downloads[k].i = rec.i
                                    THEN [downloads[k] EXCEPT !.thrown = Some(v)]
                                    ELSE downloads[k]]
        /\ UNCHANGED <<calls, disk, dirs, clock, apiKey, gen, providerCalls>>

\* await fs.writeFile(filePath, Buffer.from(buffer))
WriteImage(c) ==
    LET rec == call[c]
    IN  /\ rec.pc = "writeImage"
        /\ \/ /\ disk' = WriteFile(disk, rec.filePath,
                                   [kind |-> "image", bytes |-> rec.buffer])
              /\ call' = [call EXCEPT ![c] = [@ EXCEPT !.pc = "writeMeta"]]
           \/ /\ \E v \in Thrown("ENOSPC") :
                    call' = [call EXCEPT ![c] = Propagate(@, "writeImage", v)]
              /\ UNCHANGED disk
        /\ UNCHANGED <<calls, dirs, clock, downloads, apiKey, gen, providerCalls>>

\* await fs.writeFile(`${filePath}.json`, ...); savedPaths.push(filePath); i++
WriteMetadata(c) ==
    LET rec == call[c]
        metadata == Metadata(rec.prompt, RevisedPromptAt(rec.revisedPrompts, rec.i),
                             rec.urls[rec.i + 1], rec.timestamp, rec.filename)
    IN  /\ rec.pc = "writeMeta"
        /\ \/ /\ disk' = WriteFile(disk, SidecarPath(rec.filePath), metadata)
              /\ call' = [call EXCEPT ![c] =
                             LoopOrReturn([@ EXCEPT
                                 !.savedPaths = PushSaved(rec.savedPaths, rec.filePath),
                                 !.i = rec.i + 1])]
           \/ /\ \E v \in Thrown("ENOSPC") :
                    call' = [call EXCEPT ![c] = Propagate(@, "writeMeta", v)]
              /\ UNCHANGED disk
        /\ UNCHANGED <<calls, dirs, clock, downloads, apiKey, gen, providerCalls>>

\* the clock reading when the server starts
ClockStart == {9}

\* time passes
Tick ==
    /\ \E start \in ClockStart : clock < start + MaxTicks
    /\ clock' = clock + 1
    /\ UNCHANGED <<calls, call, disk, dirs, downloads, apiKey, gen, providerCalls>>

----------------------------------------------------------------------------
(* image_generation *)

Sizes == {"1024x1024", "1024x1792", "1792x1024"}
Qualities == {"standard", "hd"}
Styles == {"vivid", "natural"}

\* the arguments a client can send: every field but prompt may be left out
GenArgs ==
    [prompt : {<<"f","o","x">>, <<"c","a","t">>},
     size : {Undefined, Some("1024x1024"), Some("1792x1024"), Some("512x512")},
     quality : {Undefined, Some("hd")},
     style : {Undefined, Some("natural")},
     n : {Undefined, Some(0), Some(2), Some(11)}]

\* ImageGenerationRequestSchema: does the object parse
RequestSchemaAccepts(args) ==
    /\ args.size.def => args.size.v \in Sizes
    /\ args.quality.def => args.quality.v \in Qualities
    /\ args.style.def => args.style.v \in Styles
    /\ args.n.def => (args.n.v >= 1 /\ args.n.v <= 10)

\* ImageGenerationRequestSchema: the parsed object, defaults filled in
RequestSchemaParse(args) ==
    [prompt |-> args.prompt,
     size |-> IF args.size.def THEN args.size ELSE Some("1024x1024"),
     quality |-> IF args.quality.def THEN args.quality ELSE Some("standard"),
     style |-> IF args.style.def THEN args.style ELSE Some("vivid"),
     n |-> IF args.n.def THEN args.n ELSE Some(1)]

\* the shape given to server.tool for image_generation: does the object parse
RegisteredShapeAccepts(args) ==
    /\ args.size.def /\ args.size.v \in Sizes
    /\ args.quality.def /\ args.quality.v \in Qualities
    /\ args.style.def /\ args.style.v \in Styles
    /\ args.n.def /\ args.n.v >= 1 /\ args.n.v <= 10

\* the shape given to server.tool for image_generation: the parsed object
RegisteredShapeParse(args) == args

\* a credential check that lets every value through
CredentialNeverMissing(key) == FALSE

\* !apiKey
CredentialMissing(key) == Falsy(key)

\* the request openai.images.generate is given
ProviderRequest(params) ==
    [model |-> "dall-e-3", prompt |-> params.prompt, n |-> params.n,
     size |-> params.size, quality |-> params.quality, style |-> params.style]

\* what the provider can return: up to MaxImages images, the prompt revised or not
ProviderImages == [url : Urls, revised_prompt : {Undefined, Some("r1")}]
ProviderData == UNION {[1..k -> ProviderImages] : k \in 1..MaxImages}

\* the catch block of generateImage
GenerateImageCatch(v) ==
    IF v.isError
    THEN [kind |-> "envelope", isError |-> TRUE,
          text |-> <<"Image generation failed">> \o v.message]
    ELSE [kind |-> "thrown", value |-> v]

\* the successful return of generateImage in the server
GenerateImageReturn(data) ==
    [kind |-> "envelope", isError |-> FALSE,
     urls |-> [k \in DOMAIN data |-> data[k].url],
     revised_prompts |-> [k \in DOMAIN data |-> data[k].revised_prompt]]

\* the successful return of the exported generateImage
SharedGenerateImageReturn(data) ==
    [kind |-> "envelope", isError |-> FALSE,
     content |-> [k \in DOMAIN data |->
                    [type |-> "image", data |-> data[k].url, mimeType |-> "image/png"]]]

NoGen ==
    [pc |-> "idle", op |-> "none", args |-> Undefined, params |-> Undefined,
     fault |-> NoFault, result |-> NoResult]

\* the tool-serving framework turns down arguments that fail validation
InvalidParams == [kind |-> "invalid_params"]

NoInvocation == gen.pc = "idle" /\ \A c \in calls : call[c].pc = "idle"

\* generateImage up to its first await: the credential check, then the provider call
GenerateImageEnter(op, args, params) ==
    IF CredentialMissing(apiKey)
    THEN /\ gen' = [pc |-> "done", op |-> op, args |-> Some(args),
                    params |-> Some(params),
                    fault |-> [step |-> "credential",
                               value |-> [isError |-> TRUE,
                                          message |-> <<"OpenAI API key is not available">>]],
                    result |-> [kind |-> "thrown",
                                value |-> [isError |-> TRUE,
                                           message |-> <<"OpenAI API key is not available">>]]]
         /\ UNCHANGED providerCalls
    ELSE /\ gen' = [pc |-> "provider", op |-> op, args |-> Some(args),
                    params |-> Some(params), fault |-> NoFault, result |-> NoResult]
         /\ providerCalls' = Append(providerCalls, ProviderRequest(params))

\* the operation registered with server.tool: the arguments are parsed against the
\* registered shape, then the callback runs generateImage(args)
ImageGenerationTool ==
    /\ NoInvocation
    /\ \E args \in GenArgs :
          IF RegisteredShapeAccepts(args)
          THEN GenerateImageEnter("image_generation", args, RegisteredShapeParse(args))
          ELSE /\ gen' = [pc |-> "done", op |-> "image_generation", args |-> Some(args),
                          params |-> Undefined, fault |-> NoFault,
                          result |-> InvalidParams]
               /\ UNCHANGED providerCalls
    /\ UNCHANGED <<calls, call, disk, dirs, clock, downloads, apiKey>>

\* imageGenerationTool.handler: the exported generateImage, given a parsed request
SharedGenerateImage ==
    /\ NoInvocation
    /\ \E args \in GenArgs :
          /\ RequestSchemaAccepts(args)
          /\ GenerateImageEnter("handler", args, RequestSchemaParse(args))
    /\ UNCHANGED <<calls, call, disk, dirs, clock, downloads, apiKey>>

\* await openai.images.generate(...) settles
ProviderSettles ==
    /\ gen.pc = "provider"
    /\ \/ \E data \in ProviderData :
             gen' = [gen EXCEPT !.pc = "done",
                                !.result = IF gen.op = "image_generation"
                                           THEN GenerateImageReturn(data)
                                           ELSE SharedGenerateImageReturn(data)]
       \/ \E v \in Thrown("provider failed") :
             gen' = [gen EXCEPT !.pc = "done",
                                !.fault = [step |-> "provider", value |-> v],
                                !.result = GenerateImageCatch(v)]
    /\ UNCHANGED <<calls, call, disk, dirs, clock, downloads, apiKey, providerCalls>>

----------------------------------------------------------------------------
(* Specifications *)

Credentials == {Undefined, Some(<<>>), Some(<<"s","k">>)}

InitWith(cs) ==
    /\ calls = cs
    /\ call = [c \in cs |-> Idle]
    /\ disk = <<>>
    /\ dirs = {}
    /\ clock \in ClockStart
    /\ downloads = <<>>
    /\ apiKey \in Credentials
    /\ gen = NoGen
    /\ providerCalls = <<>>

\* one invocation of either operation
Init == InitWith({1})

Next ==
    \/ \E c \in calls : SaveImages(c)
    \/ \E c \in calls : Mkdir(c)
    \/ \E c \in calls : Fetch(c)
    \/ \E c \in calls : ArrayBuffer(c)
    \/ \E c \in calls : WriteImage(c)
    \/ \E c \in calls : WriteMetadata(c)
    \/ Tick
    \/ ImageGenerationTool
    \/ SharedGenerateImage
    \/ ProviderSettles

Spec == Init /\ [][Next]_vars

\* two save invocations dispatched at the same time
InitConcurrent == InitWith({1, 2}) /\ apiKey = Some(<<"s","k">>)

NextConcurrent ==
    \/ \E c \in calls : SaveImages(c)
    \/ \E c \in calls : Mkdir(c)
    \/ \E c \in calls : Fetch(c)
    \/ \E c \in calls : ArrayBuffer(c)
    \/ \E c \in calls : WriteImage(c)
    \/ \E c \in calls : WriteMetadata(c)
    \/ Tick

SpecConcurrent == InitConcurrent /\ [][NextConcurrent]_vars

----------------------------------------------------------------------------
(* Reading the state *)

IsErrorEnvelope(r) == r.kind = "envelope" /\ r.isError
IsSuccess(r) == r.kind = "envelope" /\ ~r.isError
HasNoSavedPaths(r) == "saved_paths" \notin DOMAIN r

ImagePaths == {p \in DOMAIN disk : disk[p].kind = "image"}
SidecarPaths == {p \in DOMAIN disk : disk[p].kind = "json"}

\* the position of the last ch in s, 0 when there is none
LastIndexOf(s, ch) ==
    IF \E k \in DOMAIN s : s[k] = ch
    THEN CHOOSE k \in DOMAIN s : s[k] = ch /\ \A m \in DOMAIN s : s[m] = ch => m <= k
    ELSE 0

DigitValue(ch) == (CHOOSE k \in DOMAIN DigitSeq : DigitSeq[k] = ch) - 1

RECURSIVE ParseNat(_)
ParseNat(s) ==
    IF Len(s) = 0 THEN 0
    ELSE 10 * ParseNat(SubSeq(s, 1, Len(s) - 1)) + DigitValue(s[Len(s)])

\* a file name without its four-character extension
Stem(filename) == SubSeq(filename, 1, Len(filename) - 4)

\* the text after the last hyphen of a file name's stem, read as a number
EmbeddedIndex(filename) ==
    LET stem == Stem(filename)
    IN  ParseNat(SubSeq(stem, LastIndexOf(stem, "-") + 1, Len(stem)))

\* the text between the last two hyphens of a file name's stem, read as a number
EmbeddedTimestamp(filename) ==
    LET stem == Stem(filename)
        head == SubSeq(stem, 1, LastIndexOf(stem, "-") - 1)
    IN  ParseNat(SubSeq(head, LastIndexOf(head, "-") + 1, Len(head)))

\* the paths of the images a call has pushed, and of their sidecars
SavedFiles(rec) ==
    {rec.savedPaths[j] : j \in DOMAIN rec.savedPaths}
        \cup {SidecarPath(rec.savedPaths[j]) : j \in DOMAIN rec.savedPaths}

----------------------------------------------------------------------------
(* image_generation: credential *)

\* C1: with no provider credential (the key undefined or empty), the provider
\* never receives a call, and every run of generateImage has ended at once with
\* a thrown Error, not with an envelope
C1_MissingCredentialThrows ==
    Falsy(apiKey) =>
        /\ providerCalls = <<>>
        /\ gen.pc # "provider"
        /\ (gen.pc = "done" /\ gen.params.def) =>
              /\ gen.result.kind = "thrown"
              /\ gen.result.value.isError
              /\ gen.fault.step = "credential"

C1_Witness ==
    /\ Falsy(apiKey)
    /\ gen.pc = "done"
    /\ gen.op = "image_generation"
    /\ gen.params.def
    /\ gen.result.kind = "thrown"

----------------------------------------------------------------------------
(* Both operations: what leaves the operation when something is thrown *)

\* C2 as stated: every fault raised during either operation, the missing
\* credential aside, comes back as an error envelope, whatever was thrown
C2_EveryFaultBecomesEnvelope ==
    /\ \A c \in calls :
          (call[c].pc = "done" /\ call[c].fault.step # "none")
              => IsErrorEnvelope(call[c].result)
    /\ (gen.pc = "done" /\ gen.fault.step = "provider")
          => IsErrorEnvelope(gen.result)

\* C2 amended: a fault whose thrown value is an Error instance comes back as an
\* error envelope carrying its message (a directory-creation fault always is
\* one, being rethrown as a new Error); a thrown value that is not an Error
\* instance is rethrown past the operation
C2_ErrorInstancesBecomeEnvelopes ==
    /\ \A c \in calls :
          LET rec == call[c] IN
          (rec.pc = "done" /\ rec.fault.step # "none") =>
              /\ rec.fault.step = "mkdir" => rec.fault.value.isError
              /\ IF rec.fault.value.isError
                 THEN /\ IsErrorEnvelope(rec.result)
                      /\ rec.result.text =
                            <<"Failed to save images">> \o rec.fault.value.message
                 ELSE rec.result = [kind |-> "thrown", value |-> rec.fault.value]
    /\ (gen.pc = "done" /\ gen.fault.step = "provider") =>
          IF gen.fault.value.isError
          THEN /\ IsErrorEnvelope(gen.result)
               /\ gen.result.text =
                     <<"Image generation failed">> \o gen.fault.value.message
          ELSE gen.result = [kind |-> "thrown", value |-> gen.fault.value]

C2_Witness ==
    \E c \in calls :
        /\ call[c].pc = "done"
        /\ call[c].fault.step = "writeMeta"
        /\ call[c].fault.value.isError
        /\ IsErrorEnvelope(call[c].result)

----------------------------------------------------------------------------
(* save_generated_images: a download that fails *)

\* what C3 says of the disk and the network once the download of index d.i of
\* call c has rejected
C3_Aborted(c, d) ==
    LET rec == call[c] IN
    /\ rec.pc = "done"
    /\ \A e \in DOMAIN downloads : downloads[e].c = c => downloads[e].i <= d.i
    /\ Len(rec.savedPaths) = d.i
    /\ DOMAIN disk = SavedFiles(rec)
    /\ Cardinality(DOMAIN disk) = 2 * d.i
    /\ \A j \in 1..d.i :
          /\ disk[rec.savedPaths[j]] =
                [kind |-> "image", bytes |-> Response(rec.urls[j]).body]
          /\ disk[SidecarPath(rec.savedPaths[j])].url = rec.urls[j]

C3_Case(c, d) == d.c = c /\ d.thrown.def /\ Len(call[c].urls) > d.i + 1

\* C3 as stated: after the download of index i of a larger batch rejects, nothing
\* is written or downloaded for i or later, the files of earlier indices stay,
\* and the call returns an error envelope without saved paths
C3_DownloadFailureAbortsWithEnvelope ==
    \A c \in calls : \A k \in DOMAIN downloads :
        C3_Case(c, downloads[k]) =>
            /\ C3_Aborted(c, downloads[k])
            /\ IsErrorEnvelope(call[c].result)
            /\ HasNoSavedPaths(call[c].result)

\* C3 amended: the same, except that the call returns the error envelope when the
\* download rejected with an Error instance and rethrows the value otherwise;
\* either way no list of saved paths comes back
C3_DownloadFailureAborts ==
    \A c \in calls : \A k \in DOMAIN downloads :
        C3_Case(c, downloads[k]) =>
            /\ C3_Aborted(c, downloads[k])
            /\ HasNoSavedPaths(call[c].result)
            /\ IF downloads[k].thrown.v.isError
               THEN IsErrorEnvelope(call[c].result)
               ELSE call[c].result = [kind |-> "thrown", value |-> downloads[k].thrown.v]

C3_Witness ==
    \E c \in calls : \E k \in DOMAIN downloads :
        /\ C3_Case(c, downloads[k])
        /\ downloads[k].i = 1
        /\ downloads[k].thrown.v.isError
        /\ Cardinality(DOMAIN disk) = 2
        /\ IsErrorEnvelope(call[c].result)

\* C4: a download answered with a non-success status is fatal: no image file
\* holds that response's body, and a call that ends without any other fault
\* returns an error envelope
C4_HttpFailureIsFatal ==
    \A c \in calls : \A k \in DOMAIN downloads :
        (downloads[k].c = c /\ downloads[k].status \notin {0, 200}) =>
            /\ \A p \in ImagePaths : disk[p].bytes # Response(downloads[k].url).body
            /\ (call[c].pc = "done" /\ call[c].fault.step = "none")
                  => IsErrorEnvelope(call[c].result)

----------------------------------------------------------------------------
(* save_generated_images: timestamps and file names *)

C6_AllSavedInOrder ==
    \A c \in calls :
        LET rec == call[c] IN
        ~rec.revisedPrompts.def =>
            /\ Len(downloads) <= Len(rec.savedPaths) + 1
            /\ \A k \in DOMAIN downloads :
                  downloads[k].i = k - 1 /\ downloads[k].url = rec.urls[k]
            /\ (rec.pc = "done" /\ IsSuccess(rec.result)) =>
                  /\ Len(rec.result.saved_paths) = Len(rec.urls)
                  /\ rec.result.count = Len(rec.urls)
                  /\ Len(downloads) = Len(rec.urls)
                  /\ Cardinality(ImagePaths) = Len(rec.urls)
                  /\ Cardinality(SidecarPaths) = Len(rec.urls)
                  /\ \A j \in DOMAIN rec.urls :
                        LET p == rec.result.saved_paths[j] IN
                        /\ p \in ImagePaths
                        /\ disk[p].bytes = Response(rec.urls[j]).body
                        /\ SidecarPath(p) \in SidecarPaths
                        /\ disk[SidecarPath(p)].url = rec.urls[j]
                        /\ EmbeddedIndex(disk[SidecarPath(p)].filename) = j - 1

C6_Witness ==
    \E c \in calls :
        /\ call[c].pc = "done"
        /\ IsSuccess(call[c].result)
        /\ ~call[c].revisedPrompts.def
        /\ Len(call[c].urls) = 3
        /\ call[c].urls[1] # call[c].urls[2]
        /\ Cardinality(DOMAIN disk) = 6

\* C7: within one save call no two items get the same file name: every image and
\* sidecar written so far is a file of its own (two per finished item, and the
\* image of the item whose sidecar is not yet written), and the file about to
\* be written is none of the earlier ones
C7_FileNamesDistinct ==
    \A c \in calls :
        LET rec == call[c]
            pending == IF rec.pc = "writeMeta" \/ rec.fault.step = "writeMeta"
                       THEN 1 ELSE 0
        IN  /\ Cardinality({rec.savedPaths[j] : j \in DOMAIN rec.savedPaths})
                  = Len(rec.savedPaths)
            /\ Cardinality(DOMAIN disk) = 2 * Len(rec.savedPaths) + pending
            /\ rec.pc \in {"writeImage", "writeMeta"} =>
                  /\ rec.filePath \notin SavedFiles(rec)
                  /\ SidecarPath(rec.filePath) \notin SavedFiles(rec)

C7_Witness ==
    \E c \in calls : \E p, q \in SidecarPaths :
        /\ call[c].pc = "done"
        /\ p # q
        /\ disk[p].timestamp = disk[q].timestamp
        /\ Len(call[c].prompt) > PromptPrefixLen

----------------------------------------------------------------------------
(* save_generated_images: the target directory *)

----------------------------------------------------------------------------
(* image_generation: defaults *)

OnlyPrompt(args) ==
    ~args.size.def /\ ~args.quality.def /\ ~args.style.def /\ ~args.n.def

\* C9: a request to the registered image_generation that gives only a prompt is
\* accepted, and generateImage runs with size 1024x1024, quality standard, style
\* vivid and n 1
C9_DefaultsApplied ==
    (gen.op = "image_generation" /\ gen.args.def /\ OnlyPrompt(gen.args.v)) =>
        /\ gen.result # InvalidParams
        /\ gen.params = Some([prompt |-> gen.args.v.prompt,
                              size |-> Some("1024x1024"),
                              quality |-> Some("standard"),
                              style |-> Some("vivid"),
                              n |-> Some(1)])

----------------------------------------------------------------------------
(* Two save invocations at once *)

\* C10: nothing keeps two save invocations apart: when both have derived the
\* file of the same index in the same millisecond for the same directory, and
\* their prompts agree after cutting and sanitizing, they hold the same path
C10_SamePathDerived ==
    \A c, d \in calls :
        LET a == call[c]
            b == call[d]
        IN  (/\ c # d
             /\ a.pc \in {"writeImage", "writeMeta"}
             /\ b.pc \in {"writeImage", "writeMeta"}
             /\ a.targetDir = b.targetDir
             /\ a.i = b.i
             /\ a.timestamp = b.timestamp
             /\ SafePrompt(a.prompt) = SafePrompt(b.prompt))
            => a.filePath = b.filePath

\* both calls returned success listing the same path, and the file there holds
\* what only one of them downloaded
C10_Witness ==
    \E c, d \in calls :
        /\ c # d
        /\ call[c].pc = "done" /\ call[d].pc = "done"
        /\ IsSuccess(call[c].result) /\ IsSuccess(call[d].result)
        /\ call[c].prompt # call[d].prompt
        /\ call[c].urls # call[d].urls
        /\ call[c].result.saved_paths = call[d].result.saved_paths
        /\ Len(call[c].result.saved_paths) = 1
        /\ LET p == call[c].result.saved_paths[1] IN
              /\ disk[p].bytes = Response(call[d].urls[1]).body
              /\ disk[p].bytes # Response(call[c].urls[1]).body
              /\ disk[SidecarPath(p)].url = call[d].urls[1]

====
